---- MODULE Spec2Model ----
(***************************************************************************)
(* Event-ingestion and versioned-history engine of the generic Kubernetes  *)
(* watcher: watch sources send ResourceEvents into the EventPipeline's     *)
(* channel, the single worker filters, de-duplicates by generation and     *)
(* commits snapshots to the per-key store, and the Read API reads the      *)
(* store.                                                                  *)
(*                                                                         *)
(* Strings built by fmt.Sprintf("%s/%s/%s", a, b, c) are modelled as the   *)
(* tuple <<a, b, c>> (Kubernetes names hold no "/"), so strings.Split on   *)
(* "/" yields the three components in the order they were formatted.       *)
(***************************************************************************)
EXTENDS Integers, Sequences, FiniteSets, TLC

\* ------------------------------------------------------------------ bounds
MaxVersions == 2      \* --max-changes as configured for the model runs
ChanCap == 1          \* buffer size of eventChannel in the model runs
MaxEvents == 3        \* number of events the watch sources send in a run
MaxGen == 2           \* largest metadata.generation observed

\* --------------------------------------------------------------- constants
EventTypeAdded == "ADDED"
EventTypeModified == "MODIFIED"
EventTypeDeleted == "DELETED"
EventTypes == {EventTypeAdded, EventTypeModified, EventTypeDeleted}

MethodGet == "GET"
StatusOK == 200
StatusBadRequest == 400
StatusNotFound == 404
StatusMethodNotAllowed == 405
StatusInternalServerError == 500

NumHandlers == 3      \* handlers registered by main before Start

\* ------------------------------------------------------- observed documents
Kinds == {"Gateway"}
Names == {"r", "prod"}
Namespaces == {"prod"}
Strs == Names \cup Namespaces

\* metadata.generation absent from the document
NoGen == -1
Generations == {NoGen} \cup (1..MaxGen)

\* A managedFields entry: FieldsV1 may be nil, may fail to unmarshal, or is
\* a JSON object whose top-level keys are `keys`.
StatusEntry == [nilFields |-> FALSE, parses |-> TRUE, keys |-> {"f:status"}, time |-> "t1"]
SpecEntry == [nilFields |-> FALSE, parses |-> TRUE, keys |-> {"f:spec"}, time |-> "t2"]
MetaEntry == [nilFields |-> FALSE, parses |-> TRUE, keys |-> {"f:metadata"}, time |-> "t3"]

ManagedFieldsChoices == { <<StatusEntry>>, <<StatusEntry, SpecEntry>> }

\* the nil interface{} / missing map entry
NoObj == [nil |-> TRUE]

\* no request served yet / no document converted yet
NoResponse == [endpoint |-> "none"]
NoDoc == [none |-> TRUE]

Objects ==
  [kind : Kinds, name : Names, namespace : Namespaces, generation : Generations,
   creationTimestamp : {"t0"}, managedFields : ManagedFieldsChoices]

\* ResourceIdentity (kind, name, namespace)
Identities == [kind : Kinds, name : Names, namespace : Namespaces]

\* fmt.Sprintf("%s/%s/%s", a, b, c)
Sprintf3(a, b, c) == <<a, b, c>>

\* the keys the store can hold in the model
Keys == Kinds \X Strs \X Strs

Min(a, b) == IF a < b THEN a ELSE b

VARIABLES
  eventChannel,     \* EventPipeline.eventChannel: buffered channel of ResourceEvent
  previousStates,   \* EventPipeline.previousStates: key -> last object (LastSeenCache)
  store,            \* the ordered store: key -> list of snapshots, newest first
  lastResult,       \* history: what the worker did with the last event it took:
                    \* the event, the branch taken, the number of handlers
                    \* invoked, whether the push evicted the tail
  sent,             \* number of events sent so far
  response,         \* Read API: the last request served and its response
  yamlDoc,          \* a stored document handed to the YAML conversion
  yamlOut,          \* what the conversion returned for yamlDoc
  watchers,         \* per watch source: the event it built and has not sent yet
  clock,            \* the wall clock time.Now() reads
  trimPending,      \* PushResourceChange has issued its LPUSH and not yet its LTRIM
  sourcePc,         \* per watch source: its position in watchNamespace
  supervisor        \* main: its position, the handlers registered, the goroutines
                    \* started, the store connection, whether the process runs

vars == <<eventChannel, previousStates, store, lastResult, sent, response, yamlDoc, yamlOut,
          watchers, clock, trimPending, sourcePc, supervisor>>

\* the variables the pipeline never touches
readVars == <<response, yamlDoc, yamlOut, supervisor>>

\* the state of the watch-source goroutines
watchVars == <<watchers, clock, sourcePc>>

\* the namespaces the watch sources of the model runs watch, one goroutine each
Sources == {"prod", "r"}

\* a watchNamespace goroutine before its first statement: phase is the
\* statement it is at, items the result of its List call, next the index of
\* the next item to send, listErr / watchErr the errors List and Watch returned
NotStarted ==
  [phase |-> "list", items |-> <<>>, next |-> 1, listErr |-> FALSE, watchErr |-> FALSE]

\* main once it has reached `select {}`: the store connection open, the
\* three handlers registered, the worker, the watchers and the HTTP server
\* started
Booted ==
  [pc |-> "select", storeOpen |-> TRUE, changeHandlers |-> NumHandlers,
   worker |-> TRUE, enabledResources |-> Sources, watchersStarted |-> Sources,
   server |-> TRUE, running |-> TRUE]

\* the event a watch source builds from an observed object
ResourceEvent(type, kind, obj) ==
  [Type |-> type, ResourceKind |-> kind, Namespace |-> obj.namespace,
   Name |-> obj.name, Object |-> obj, ManagedFields |-> obj.managedFields]

\* The events the watch sources send in the model runs: every type,
\* generation and managedFields choice for the resource prod/r, and ADDED
\* events of every generation for a second resource prod/prod.
Events ==
  { ResourceEvent(t, o.kind, o) : t \in EventTypes, o \in { x \in Objects : x.name = "r" } }
  \cup
  { ResourceEvent(EventTypeAdded, o.kind, o) :
      o \in { x \in Objects : /\ x.name = "prod"
                               /\ x.generation # NoGen
                               /\ x.managedFields = <<StatusEntry, SpecEntry>> } }


\* ------------------------------------------------------ generation helpers
\* getObjectGenerationFromEvent: 0 for nil or a document without generation
getObjectGenerationFromEvent(obj) ==
  IF obj = NoObj THEN 0
  ELSE IF obj.generation = NoGen THEN 0 ELSE obj.generation

\* getObjectGeneration (Read API): same extraction on the stored document
getObjectGeneration(obj) ==
  IF obj = NoObj THEN 0
  ELSE IF obj.generation = NoGen THEN 0 ELSE obj.generation

\* getObjectKind: "" for nil
getObjectKind(obj) == IF obj = NoObj THEN "" ELSE obj.kind

\* getObjectNameNamespace: <<name, namespace>>, <<"", "">> for nil
getObjectNameNamespace(obj) ==
  IF obj = NoObj THEN <<"", "">> ELSE <<obj.name, obj.namespace>>

\* getObjectTimestamp (Read API): time of the last managedFields entry,
\* else creationTimestamp, else ""
getObjectTimestamp(obj) ==
  IF obj = NoObj THEN ""
  ELSE IF Len(obj.managedFields) > 0
       THEN obj.managedFields[Len(obj.managedFields)].time
       ELSE obj.creationTimestamp

\* deepCopyObject: a copy with the same content
deepCopyObject(obj) == obj

\* --------------------------------------------------------- relevance filter
\* mutant: any declared key counts, status included
entryIsRelevant_AnyKey(mf) ==
  /\ ~mf.nilFields
  /\ mf.parses
  /\ mf.keys # {}

\* mutant: keys below the top level count as well
entryIsRelevant_NestedKeys(mf) ==
  /\ ~mf.nilFields
  /\ mf.parses
  /\ \E key \in mf.keys \cup mf.nested : key = "f:metadata" \/ key = "f:spec"

\* one managedFields entry of hasRelevantChanges: nil FieldsV1 and documents
\* that do not unmarshal are skipped, otherwise the top-level keys decide
entryIsRelevant(mf) ==
  /\ ~mf.nilFields
  /\ mf.parses
  /\ \E key \in mf.keys : key = "f:metadata" \/ key = "f:spec"

\* mutant: the loop returns after its first entry
hasRelevantChanges_FirstEntryOnly(event) ==
  /\ Len(event.ManagedFields) > 0
  /\ ~event.ManagedFields[1].nilFields
  /\ event.ManagedFields[1].parses
  /\ \E key \in event.ManagedFields[1].keys : key = "f:metadata" \/ key = "f:spec"

\* hasRelevantChanges: some entry of the event's ManagedFields is relevant
hasRelevantChanges(event) ==
  \E i \in 1..Len(event.ManagedFields) : entryIsRelevant(event.ManagedFields[i])

\* ------------------------------------------------------------ store adapter
\* mutant: RPUSH, insert at the tail
LPush_AtTail(list, data) == list \o <<data>>

\* LPUSH: insert at the head of the list
LPush(list, data) == <<data>> \o list

\* mutant: the stop index is maxSize instead of maxSize-1
LTrim_KeepOneMore(list, start, stop) == SubSeq(list, start + 1, Min(stop + 2, Len(list)))

\* LTRIM list start stop: keep the elements at 0-based positions start..stop
LTrim(list, start, stop) == SubSeq(list, start + 1, Min(stop + 1, Len(list)))

\* PushObject(resourceKey, obj): head-push under the key it is given, then
\* trim that key's list to maxSize, as one step
PushObject(st, resourceKey, obj) ==
  [st EXCEPT ![resourceKey] = LTrim(LPush(@, obj), 0, MaxVersions - 1)]

\* GetResourceObjects(resourceKey): the list under the key, newest first
GetResourceObjects(st, resourceKey) ==
  IF resourceKey \in DOMAIN st THEN st[resourceKey] ELSE <<>>

\* GetAllObjects(): every stored snapshot, of every key
GetAllObjects(st) ==
  UNION { { st[k][i] : i \in 1..Len(st[k]) } : k \in DOMAIN st }

\* GetAllResourceKeys(): the keys that hold a list
GetAllResourceKeys(st) == { k \in DOMAIN st : st[k] # <<>> }


\* ---------------------------------------------------------------- Read API
\* ResourceTuple parsed from a key: parts[0], parts[1], parts[2] of
\* strings.Split(key, "/") become Kind, Name, Namespace
ResourceTuple(key) == [Kind |-> key[1], Name |-> key[2], Namespace |-> key[3]]

\* writeErrorResponse: the status code and the JSON body
\* {"success": false, "error": message}
writeErrorResponse(statusCode, message) ==
  [status |-> statusCode, body |-> [success |-> FALSE, error |-> message]]

\* handleGetResourceHistory: GET /api/history?kind=&name=&namespace=
\* readOk is the outcome of the store read.
handleGetResourceHistory(st, method, kind, name, namespace, readOk) ==
  IF method # MethodGet
  THEN writeErrorResponse(StatusMethodNotAllowed, "Method not allowed")
  ELSE IF kind = "" \/ name = "" \/ namespace = ""
  THEN writeErrorResponse(StatusBadRequest, "Missing required parameters")
  ELSE LET resourceKey == Sprintf3(kind, name, namespace)
           objects == GetResourceObjects(st, resourceKey)
       IN  IF ~readOk
           THEN writeErrorResponse(StatusInternalServerError, "Failed to retrieve resource")
           ELSE IF Len(objects) = 0
           THEN writeErrorResponse(StatusNotFound, "Resource not found")
           ELSE [status |-> StatusOK,
                 body |-> [i \in 1..Len(objects) |->
                            [generation |-> getObjectGeneration(objects[i]),
                             timestamp |-> getObjectTimestamp(objects[i])]]]

\* handleListAllResources: GET /api/resources; the body is the list of
\* tuples, one per key with three parts (its order is the store's key order,
\* modelled as a set)
handleListAllResources(st, method, readOk) ==
  IF method # MethodGet
  THEN writeErrorResponse(StatusMethodNotAllowed, "Method not allowed")
  ELSE IF ~readOk
  THEN writeErrorResponse(StatusInternalServerError, "Failed to retrieve resource keys")
  ELSE [status |-> StatusOK,
        body |-> { ResourceTuple(key) : key \in { k \in GetAllResourceKeys(st) : Len(k) = 3 } }]

\* --------------------------------------------------------- YAML conversion
\* A document is a map from field names to values; a field is present when
\* its name is in the DOMAIN of the map.
LastAppliedAnnotation == "kubectl.kubernetes.io/last-applied-configuration"

Has(m, key) == key \in DOMAIN m

Restrict(m, keys) == [k \in keys |-> m[k]]

\* the map[string]interface{} a stored snapshot decodes to
AsMap(obj) ==
  LET base == [name |-> obj.name, namespace |-> obj.namespace,
               creationTimestamp |-> obj.creationTimestamp,
               managedFields |-> obj.managedFields]
      metadata == IF obj.generation = NoGen THEN base
                  ELSE base @@ [generation |-> obj.generation]
  IN  [apiVersion |-> "gateway.networking.k8s.io/v1", kind |-> obj.kind,
       metadata |-> metadata]

\* CleanKubernetesObject: the cleaned map holds apiVersion, kind, spec and
\* status when the document has them, and the metadata without the
\* last-applied-configuration annotation, without an annotations map that is
\* empty after that removal, and without managedFields
CleanKubernetesObject(objMap) ==
  LET top == DOMAIN objMap \cap {"apiVersion", "kind", "metadata", "spec", "status"}
      metadata == objMap.metadata
      annotations == Restrict(metadata.annotations,
                              DOMAIN metadata.annotations \ {LastAppliedAnnotation})
      copied == IF Has(metadata, "annotations") /\ DOMAIN annotations = {}
                THEN DOMAIN metadata \ {"annotations"}
                ELSE DOMAIN metadata
      kept == copied \ {"managedFields"}
      cleanedMetadata == [k \in kept |->
                            IF k = "annotations" THEN annotations ELSE metadata[k]]
  IN  [k \in top |-> IF k = "metadata" THEN cleanedMetadata ELSE objMap[k]]

\* ConvertToYAML: the YAML text of the cleaned map, modelled as that map
ConvertToYAML(objMap) == CleanKubernetesObject(objMap)

\* getCreationTimestampFromObject: "unknown" when absent or empty
getCreationTimestampFromObject(objMap) ==
  IF /\ Has(objMap, "metadata")
     /\ Has(objMap.metadata, "creationTimestamp")
     /\ objMap.metadata.creationTimestamp # ""
  THEN objMap.metadata.creationTimestamp
  ELSE "unknown"

\* getModificationTimestampFromObject: the time of the last managedFields
\* entry when it is a non-empty string, else the creation timestamp
getModificationTimestampFromObject(objMap) ==
  IF /\ Has(objMap, "metadata")
     /\ Has(objMap.metadata, "managedFields")
     /\ Len(objMap.metadata.managedFields) > 0
     /\ LET lastField == objMap.metadata.managedFields[Len(objMap.metadata.managedFields)]
        IN  Has(lastField, "time") /\ lastField.time # ""
  THEN objMap.metadata.managedFields[Len(objMap.metadata.managedFields)].time
  ELSE getCreationTimestampFromObject(objMap)

\* getObjectGenerationFromObject: 0 when the metadata has no generation
getObjectGenerationFromObject(objMap) ==
  IF Has(objMap, "metadata") /\ Has(objMap.metadata, "generation")
  THEN objMap.metadata.generation
  ELSE 0

\* mutant: the modification time is used for every generation
ConvertToYAMLWithStoredMetadata_AlwaysModification(objMap) ==
  [timestamp |-> getModificationTimestampFromObject(objMap),
   generation |-> getObjectGenerationFromObject(objMap),
   yaml |-> ConvertToYAML(objMap)]

\* ConvertToYAMLWithStoredMetadata: "timestamp: %s\ngeneration: %d\n---\n%s"
\* as its three parts
ConvertToYAMLWithStoredMetadata(objMap) ==
  LET generation == getObjectGenerationFromObject(objMap)
      timestamp == IF generation = 1
                   THEN getCreationTimestampFromObject(objMap)
                   ELSE getModificationTimestampFromObject(objMap)
  IN  [timestamp |-> timestamp, generation |-> generation,
       yaml |-> ConvertToYAML(objMap)]

\* strconv.ParseInt(generationStr, 10, 64) on the strings a client sends in
\* the model runs
Numerals == [s \in {"0", "1", "2", "3", "4"} |->
               CASE s = "0" -> 0 [] s = "1" -> 1 [] s = "2" -> 2 [] s = "3" -> 3
                 [] OTHER -> 4]

ParseInt(str) ==
  IF str \in DOMAIN Numerals THEN [err |-> FALSE, value |-> Numerals[str]]
  ELSE [err |-> TRUE, value |-> 0]

\* handleGetGenerationYAML:
\* GET /api/generation?kind=&name=&namespace=&generation=
handleGetGenerationYAML(st, method, kind, name, namespace, generationStr, readOk) ==
  IF method # MethodGet
  THEN writeErrorResponse(StatusMethodNotAllowed, "Method not allowed")
  ELSE IF kind = "" \/ name = "" \/ namespace = "" \/ generationStr = ""
  THEN writeErrorResponse(StatusBadRequest, "Missing required parameters")
  ELSE IF ParseInt(generationStr).err
  THEN writeErrorResponse(StatusBadRequest, "Invalid generation number")
  ELSE LET targetGeneration == ParseInt(generationStr).value
           resourceKey == Sprintf3(kind, name, namespace)
           objects == GetResourceObjects(st, resourceKey)
           matching == { i \in 1..Len(objects) :
                           getObjectGeneration(objects[i]) = targetGeneration }
       IN  IF ~readOk
           THEN writeErrorResponse(StatusInternalServerError, "Failed to retrieve resource")
           ELSE IF Len(objects) = 0
           THEN writeErrorResponse(StatusNotFound, "Resource not found")
           ELSE IF matching = {}
           THEN writeErrorResponse(StatusNotFound, "Generation not found")
           ELSE LET first == CHOOSE i \in matching : \A j \in matching : i <= j
                IN  [status |-> StatusOK,
                     body |-> ConvertToYAMLWithStoredMetadata(AsMap(objects[first]))]

\* the /health handler: it answers every request the same way
handleHealth(method) ==
  [status |-> StatusOK, body |-> [success |-> TRUE, message |-> "Server is healthy"]]

\* the routes StartHTTPServer registers
Endpoints == {"/api/history", "/api/generation", "/api/resources", "/health"}

\* the handler registered for the request's path
ServeMux(st, req) ==
  CASE req.endpoint = "/api/history" ->
         handleGetResourceHistory(st, req.method, req.kind, req.name, req.namespace, req.readOk)
    [] req.endpoint = "/api/generation" ->
         handleGetGenerationYAML(st, req.method, req.kind, req.name, req.namespace,
                                 req.generation, req.readOk)
    [] req.endpoint = "/api/resources" ->
         handleListAllResources(st, req.method, req.readOk)
    [] OTHER -> handleHealth(req.method)

\* ------------------------------------------------------------ the pipeline
\* mutant: the comparison with the cached generation is missing
storeVersionedResourceChange_NoCacheCheck(st, event, oldObj, scanOk, pushOk) ==
  LET newGen == getObjectGenerationFromEvent(event.Object)
      resourceKey == Sprintf3(event.ResourceKind, event.Namespace, event.Name)
      allObjects == IF scanOk THEN GetAllObjects(st) ELSE {}
      duplicate ==
        \E obj \in allObjects :
          /\ getObjectKind(obj) = event.ResourceKind
          /\ getObjectGenerationFromEvent(obj) = newGen
          /\ getObjectNameNamespace(obj)[1] = event.Name
          /\ getObjectNameNamespace(obj)[2] = event.Namespace
  IN  IF duplicate
      THEN [store |-> st, outcome |-> "skip_store"]
      ELSE IF pushOk
      THEN [store |-> PushObject(st, resourceKey, event.Object), outcome |-> "stored"]
      ELSE [store |-> st, outcome |-> "push_failed"]

\* mutant: every resource is pushed to one list, as the legacy queue did
storeVersionedResourceChange_GlobalQueue(st, event, oldObj, scanOk, pushOk) ==
  LET newGen == getObjectGenerationFromEvent(event.Object)
      oldGen == getObjectGenerationFromEvent(oldObj)
      queueName == Sprintf3("Gateway", "prod", "r")
      allObjects == IF scanOk THEN GetAllObjects(st) ELSE {}
      duplicate ==
        \E obj \in allObjects :
          /\ getObjectKind(obj) = event.ResourceKind
          /\ getObjectGenerationFromEvent(obj) = newGen
          /\ getObjectNameNamespace(obj)[1] = event.Name
          /\ getObjectNameNamespace(obj)[2] = event.Namespace
  IN  IF oldObj # NoObj /\ newGen = oldGen
      THEN [store |-> st, outcome |-> "skip_cache"]
      ELSE IF duplicate
      THEN [store |-> st, outcome |-> "skip_store"]
      ELSE IF pushOk
      THEN [store |-> PushObject(st, queueName, event.Object), outcome |-> "stored"]
      ELSE [store |-> st, outcome |-> "push_failed"]

\* mutant: the scan compares kind and generation only
storeVersionedResourceChange_ScanIgnoresName(st, event, oldObj, scanOk, pushOk) ==
  LET newGen == getObjectGenerationFromEvent(event.Object)
      oldGen == getObjectGenerationFromEvent(oldObj)
      resourceKey == Sprintf3(event.ResourceKind, event.Namespace, event.Name)
      allObjects == IF scanOk THEN GetAllObjects(st) ELSE {}
      duplicate ==
        \E obj \in allObjects :
          /\ getObjectKind(obj) = event.ResourceKind
          /\ getObjectGenerationFromEvent(obj) = newGen
  IN  IF oldObj # NoObj /\ newGen = oldGen
      THEN [store |-> st, outcome |-> "skip_cache"]
      ELSE IF duplicate
      THEN [store |-> st, outcome |-> "skip_store"]
      ELSE IF pushOk
      THEN [store |-> PushObject(st, resourceKey, event.Object), outcome |-> "stored"]
      ELSE [store |-> st, outcome |-> "push_failed"]

\* mutant: a failed scan discards the event
storeVersionedResourceChange_ScanErrorDrops(st, event, oldObj, scanOk, pushOk) ==
  LET newGen == getObjectGenerationFromEvent(event.Object)
      oldGen == getObjectGenerationFromEvent(oldObj)
      resourceKey == Sprintf3(event.ResourceKind, event.Namespace, event.Name)
      duplicate ==
        \E obj \in GetAllObjects(st) :
          /\ getObjectKind(obj) = event.ResourceKind
          /\ getObjectGenerationFromEvent(obj) = newGen
          /\ getObjectNameNamespace(obj)[1] = event.Name
          /\ getObjectNameNamespace(obj)[2] = event.Namespace
  IN  IF oldObj # NoObj /\ newGen = oldGen
      THEN [store |-> st, outcome |-> "skip_cache"]
      ELSE IF ~scanOk \/ duplicate
      THEN [store |-> st, outcome |-> "skip_store"]
      ELSE IF pushOk
      THEN [store |-> PushObject(st, resourceKey, event.Object), outcome |-> "stored"]
      ELSE [store |-> st, outcome |-> "push_failed"]

\* mutant: a DELETED event clears the list of its resource
storeVersionedResourceChange_DeletedClears(st, event, oldObj, scanOk, pushOk) ==
  LET newGen == getObjectGenerationFromEvent(event.Object)
      oldGen == getObjectGenerationFromEvent(oldObj)
      resourceKey == Sprintf3(event.ResourceKind, event.Namespace, event.Name)
      allObjects == IF scanOk THEN GetAllObjects(st) ELSE {}
      duplicate ==
        \E obj \in allObjects :
          /\ getObjectKind(obj) = event.ResourceKind
          /\ getObjectGenerationFromEvent(obj) = newGen
          /\ getObjectNameNamespace(obj)[1] = event.Name
          /\ getObjectNameNamespace(obj)[2] = event.Namespace
  IN  IF event.Type = EventTypeDeleted
      THEN [store |-> [st EXCEPT ![resourceKey] = <<>>], outcome |-> "skip_store"]
      ELSE IF oldObj # NoObj /\ newGen = oldGen
      THEN [store |-> st, outcome |-> "skip_cache"]
      ELSE IF duplicate
      THEN [store |-> st, outcome |-> "skip_store"]
      ELSE IF pushOk
      THEN [store |-> PushObject(st, resourceKey, event.Object), outcome |-> "stored"]
      ELSE [store |-> st, outcome |-> "push_failed"]

\* storeVersionedResourceChange(event, oldObj, changes).  scanOk / pushOk are
\* the outcomes of the two store calls: a failed GetAllObjects has its error
\* discarded and yields no objects, a failed PushObject is logged only.
\* Result: the store afterwards and which branch was taken.
storeVersionedResourceChange(st, event, oldObj, scanOk, pushOk) ==
  LET newGen == getObjectGenerationFromEvent(event.Object)
      oldGen == getObjectGenerationFromEvent(oldObj)
      resourceKey == Sprintf3(event.ResourceKind, event.Namespace, event.Name)
      allObjects == IF scanOk THEN GetAllObjects(st) ELSE {}
      duplicate ==
        \E obj \in allObjects :
          /\ getObjectKind(obj) = event.ResourceKind
          /\ getObjectGenerationFromEvent(obj) = newGen
          /\ getObjectNameNamespace(obj)[1] = event.Name
          /\ getObjectNameNamespace(obj)[2] = event.Namespace
  IN  IF oldObj # NoObj /\ newGen = oldGen
      THEN [store |-> st, outcome |-> "skip_cache"]
      ELSE IF duplicate
      THEN [store |-> st, outcome |-> "skip_store"]
      ELSE IF pushOk
      THEN [store |-> PushObject(st, resourceKey, event.Object), outcome |-> "stored"]
      ELSE [store |-> st, outcome |-> "push_failed"]

\* mutant: the cache is updated before the relevance filter returns
processEvent_CacheBeforeFilter(event, scanOk, pushOk, handlerOk) ==
  LET key == Sprintf3(event.ResourceKind, event.Namespace, event.Name) IN
  IF ~hasRelevantChanges(event) /\ event.Type # EventTypeAdded
  THEN /\ lastResult' = [outcome |-> "filtered", event |-> event, handlers |-> 0,
                          evicted |-> FALSE]
       /\ previousStates' = [previousStates EXCEPT ![key] = deepCopyObject(event.Object)]
       /\ UNCHANGED store
  ELSE LET oldState == previousStates[key]
           res == storeVersionedResourceChange(store, event, oldState, scanOk, pushOk)
       IN  /\ store' = res.store
           /\ previousStates' = [previousStates EXCEPT ![key] = deepCopyObject(event.Object)]
           /\ lastResult' = [outcome |-> res.outcome, event |-> event,
                              handlers |-> NumHandlers,
                              evicted |-> /\ res.outcome = "stored"
                                          /\ Len(store[key]) >= MaxVersions]

\* mutant: the handlers are called before the relevance filter returns
processEvent_HandlersBeforeFilter(event, scanOk, pushOk, handlerOk) ==
  LET key == Sprintf3(event.ResourceKind, event.Namespace, event.Name) IN
  IF ~hasRelevantChanges(event) /\ event.Type # EventTypeAdded
  THEN /\ lastResult' = [outcome |-> "filtered", event |-> event,
                          handlers |-> NumHandlers, evicted |-> FALSE]
       /\ UNCHANGED <<previousStates, store>>
  ELSE LET oldState == previousStates[key]
           res == storeVersionedResourceChange(store, event, oldState, scanOk, pushOk)
       IN  /\ store' = res.store
           /\ previousStates' = [previousStates EXCEPT ![key] = deepCopyObject(event.Object)]
           /\ lastResult' = [outcome |-> res.outcome, event |-> event,
                              handlers |-> NumHandlers,
                              evicted |-> /\ res.outcome = "stored"
                                          /\ Len(store[key]) >= MaxVersions]

\* processEvent(event): the whole handler of one event taken from the channel.
\* handlerOk: every registered handler returns.  A handler that panics
\* unwinds processEvent and Start (neither recovers): the store call before
\* the handler loop has run, the cache update after it has not, and the
\* goroutine's panic ends the process.
processEvent(event, scanOk, pushOk, handlerOk) ==
  LET key == Sprintf3(event.ResourceKind, event.Namespace, event.Name) IN
  IF ~hasRelevantChanges(event) /\ event.Type # EventTypeAdded
  THEN /\ lastResult' = [outcome |-> "filtered", event |-> event, handlers |-> 0,
                          evicted |-> FALSE]
       /\ UNCHANGED <<previousStates, store>>
  ELSE LET oldState == previousStates[key]
           res == storeVersionedResourceChange(store, event, oldState, scanOk, pushOk)
       IN  /\ store' = res.store
           /\ IF handlerOk
              THEN /\ previousStates' =
                        [previousStates EXCEPT ![key] = deepCopyObject(event.Object)]
                   /\ lastResult' = [outcome |-> res.outcome, event |-> event,
                                      handlers |-> NumHandlers,
                                      evicted |-> /\ res.outcome = "stored"
                                                  /\ Len(store[key]) >= MaxVersions]
              ELSE /\ UNCHANGED previousStates
                   /\ lastResult' = [outcome |-> "handler_panic", event |-> event,
                                      handlers |-> 1,
                                      evicted |-> /\ res.outcome = "stored"
                                                  /\ Len(store[key]) >= MaxVersions]

\* SendEvent: a watch source puts an event on the channel; the send blocks
\* while the buffer is full
SendEvent(event) ==
  /\ sent < MaxEvents
  /\ Len(eventChannel) < ChanCap
  /\ eventChannel' = Append(eventChannel, event)
  /\ sent' = sent + 1
  /\ UNCHANGED <<previousStates, store, lastResult>>
  /\ UNCHANGED readVars
  /\ UNCHANGED trimPending
  /\ UNCHANGED watchVars

\* a worker that discards the event behind the one it takes
Start_SkipsNext ==
  /\ eventChannel # <<>>
  /\ eventChannel' = IF Len(eventChannel) > 1 THEN Tail(Tail(eventChannel))
                     ELSE Tail(eventChannel)
  /\ \E scanOk \in BOOLEAN, pushOk \in BOOLEAN :
        processEvent(Head(eventChannel), scanOk, pushOk, TRUE)
  /\ UNCHANGED sent
  /\ UNCHANGED readVars
  /\ UNCHANGED trimPending
  /\ UNCHANGED watchVars

\* Start: one iteration of the worker loop `for event := range eventChannel`,
\* with the three handlers main registers (they only print and return)
Start ==
  /\ eventChannel # <<>>
  /\ eventChannel' = Tail(eventChannel)
  /\ \E scanOk \in BOOLEAN, pushOk \in BOOLEAN :
        processEvent(Head(eventChannel), scanOk, pushOk, TRUE)
  /\ UNCHANGED sent
  /\ UNCHANGED readVars
  /\ UNCHANGED trimPending
  /\ UNCHANGED watchVars

\* The process is stopped and started again: NewEventPipeline builds an empty
\* channel and an empty previousStates, the store keeps its lists.
Restart ==
  /\ lastResult.outcome # "restart"
  /\ eventChannel' = <<>>
  /\ previousStates' = [k \in Keys |-> NoObj]
  /\ lastResult' = [outcome |-> "restart", event |-> NoObj, handlers |-> 0,
                     evicted |-> FALSE]
  /\ UNCHANGED <<store, sent>>
  /\ UNCHANGED readVars
  /\ UNCHANGED trimPending
  /\ UNCHANGED watchVars

Init ==
  /\ eventChannel = <<>>
  /\ previousStates = [k \in Keys |-> NoObj]
  /\ store = [k \in Keys |-> <<>>]
  /\ lastResult = [outcome |-> "none", event |-> NoObj, handlers |-> 0,
                    evicted |-> FALSE]
  /\ sent = 0
  /\ response = NoResponse
  /\ yamlDoc = NoDoc
  /\ yamlOut = NoDoc
  /\ watchers = [s \in Sources |-> NoObj]
  /\ clock = 0
  /\ trimPending = FALSE
  /\ sourcePc = [s \in Sources |-> NotStarted]
  /\ supervisor = Booted

Next ==
  \/ \E event \in Events : SendEvent(event)
  \/ Start
  \/ Restart

Spec == Init /\ [][Next]_vars

TypeOK ==
  /\ Len(eventChannel) <= ChanCap
  /\ \A k \in Keys : previousStates[k] \in Objects \cup {NoObj}
  /\ sent \in 0..MaxEvents


\* ------------------------------------------------- the Read API as a server
Methods == {MethodGet, "POST"}

\* the requests clients send in the model runs; "" is a missing parameter,
\* readOk the outcome of the handler's store read
Requests ==
  [endpoint : {"/api/history"}, method : Methods, kind : Kinds,
   name : {"r", "prod", ""}, namespace : {"prod", "r"}, generation : {""},
   readOk : BOOLEAN]
  \cup
  [endpoint : {"/api/generation"}, method : Methods, kind : Kinds,
   name : {"r", "prod"}, namespace : {"prod", "r"}, generation : {"", "x", "1", "2"},
   readOk : BOOLEAN]
  \cup
  [endpoint : {"/api/resources", "/health"}, method : Methods, kind : {""},
   name : {""}, namespace : {""}, generation : {""}, readOk : BOOLEAN]

\* the events observed while the Read API is exercised: spec changes of
\* prod/r in every generation, and the creation of prod/prod
ApiEvents ==
  { e \in Events : /\ e.Type = EventTypeAdded
                   /\ e.Object.generation # NoGen
                   /\ e.ManagedFields = <<StatusEntry, SpecEntry>>
                   /\ e.Name = "prod" => e.Object.generation = 1 }

\* a server whose handlers consume the lists they read
ServeHTTP_DrainsStore(req) ==
  /\ response' = [request |-> req, status |-> ServeMux(store, req).status,
                  body |-> ServeMux(store, req).body]
  /\ store' = [k \in Keys |-> <<>>]
  /\ UNCHANGED <<eventChannel, previousStates, lastResult, sent, yamlDoc, yamlOut>>
  /\ UNCHANGED watchVars
  /\ UNCHANGED supervisor
  /\ UNCHANGED trimPending

\* one request served by the HTTP server: the handler of its path runs on
\* the store as it is and writes the response
ServeHTTP(req) ==
  /\ response' = [request |-> req, status |-> ServeMux(store, req).status,
                  body |-> ServeMux(store, req).body]
  /\ UNCHANGED <<eventChannel, previousStates, store, lastResult, sent, yamlDoc, yamlOut>>
  /\ UNCHANGED watchVars
  /\ UNCHANGED supervisor
  /\ UNCHANGED trimPending

NextApi ==
  \/ \E event \in ApiEvents : SendEvent(event)
  \/ Start
  \/ \E req \in Requests : ServeHTTP(req)

\* the pipeline and the Read API running side by side
SpecApi == Init /\ [][NextApi]_vars

\* the events observed in the runs that exercise every request against a
\* store the worker is filling: the creation of prod/r and of prod/prod
ReadEvents == { e \in ApiEvents : e.Object.generation = 1 }

NextReads ==
  \/ \E event \in ReadEvents : SendEvent(event)
  \/ Start
  \/ \E req \in Requests : ServeHTTP(req)

SpecReads == Init /\ [][NextReads]_vars

\* ------------------------- the pipeline started over a store already filled
\* the snapshot of generation g of the resource prod/name
Snapshot(name, g) ==
  [kind |-> "Gateway", name |-> name, namespace |-> "prod", generation |-> g,
   creationTimestamp |-> "t0", managedFields |-> <<StatusEntry, SpecEntry>>]

\* the lists an earlier run of the program can have left in the store for
\* prod/name: at most MaxVersions snapshots, newest generation first
PersistedLogs(name) ==
  { [i \in 1..Len(gens) |-> Snapshot(name, gens[i])] :
      gens \in { g \in UNION { [1..n -> 1..MaxGen] : n \in 0..MaxVersions } :
                   \A i \in 1..Len(g), j \in 1..Len(g) : i < j => g[i] > g[j] } }

\* NewEventPipeline and NewRedisManager against a Redis that kept its lists
InitPersisted ==
  /\ eventChannel = <<>>
  /\ previousStates = [k \in Keys |-> NoObj]
  /\ \E logR \in PersistedLogs("r"), logProd \in PersistedLogs("prod") :
       store = [k \in Keys |->
                  IF k = Sprintf3("Gateway", "prod", "r") THEN logR
                  ELSE IF k = Sprintf3("Gateway", "prod", "prod") THEN logProd
                  ELSE <<>>]
  /\ lastResult = [outcome |-> "none", event |-> NoObj, handlers |-> 0,
                    evicted |-> FALSE]
  /\ sent = 0
  /\ response = NoResponse
  /\ yamlDoc = NoDoc
  /\ yamlOut = NoDoc
  /\ watchers = [s \in Sources |-> NoObj]
  /\ clock = 0
  /\ trimPending = FALSE
  /\ sourcePc = [s \in Sources |-> NotStarted]
  /\ supervisor = Booted

\* the events observed over the filled store: those of ApiEvents and the
\* status-only modifications of prod/r
PersistedEvents ==
  ApiEvents \cup
  { e \in Events : /\ e.Type = EventTypeModified
                   /\ e.Object.generation # NoGen
                   /\ e.ManagedFields = <<StatusEntry>> }

NextPersisted ==
  \/ \E event \in PersistedEvents : SendEvent(event)
  \/ Start

SpecPersisted == InitPersisted /\ [][NextPersisted]_vars

\* --------------------------------- the relevance filter on every audit entry
\* the audit entries of the filter runs: FieldsV1 nil or not, its bytes a
\* JSON object or not, the keys of that object at the top level and the keys
\* that occur only inside nested values
AuditEntries ==
  [nilFields : BOOLEAN, parses : BOOLEAN,
   keys : SUBSET {"f:metadata", "f:spec", "f:status"},
   nested : SUBSET {"f:metadata", "f:spec"}, time : {"t1"}]

\* an entry that mentions the spec only below f:status
NestedOnlyEntry ==
  [nilFields |-> FALSE, parses |-> TRUE, keys |-> {"f:status"}, nested |-> {"f:spec"},
   time |-> "t1"]

\* MODIFIED and DELETED events of prod/r carrying one audit entry, alone or
\* after NestedOnlyEntry
AuditedEvents ==
  { ResourceEvent(type, "Gateway",
                  [kind |-> "Gateway", name |-> "r", namespace |-> "prod",
                   generation |-> 1, creationTimestamp |-> "t0", managedFields |-> mfs]) :
      type \in {EventTypeModified, EventTypeDeleted},
      mfs \in { <<e>> : e \in AuditEntries } \cup { <<NestedOnlyEntry, e>> : e \in AuditEntries } }

\* a watch source has sent one audited event to a fresh pipeline
InitRelevance ==
  /\ \E event \in AuditedEvents : eventChannel = <<event>>
  /\ previousStates = [k \in Keys |-> NoObj]
  /\ store = [k \in Keys |-> <<>>]
  /\ lastResult = [outcome |-> "none", event |-> NoObj, handlers |-> 0,
                    evicted |-> FALSE]
  /\ sent = 1
  /\ response = NoResponse
  /\ yamlDoc = NoDoc
  /\ yamlOut = NoDoc
  /\ watchers = [s \in Sources |-> NoObj]
  /\ clock = 0
  /\ trimPending = FALSE
  /\ sourcePc = [s \in Sources |-> NotStarted]
  /\ supervisor = Booted

NextRelevance == Start

SpecRelevance == InitRelevance /\ [][NextRelevance]_vars

\* ----------------------------- the append of the store, command by command
\* the Redis list NewRedisManager is given by main
QueueName == "annotation_changes"

\* GetCurrentVersion(resourceKey): the largest Version among the changes of
\* the resource in the list, 0 when there is none
GetCurrentVersion(list, resourceKey) ==
  LET versions == { list[i].Version : i \in { j \in 1..Len(list) :
                      Sprintf3(list[j].ResourceKind, list[j].Namespace,
                               list[j].ResourceName) = resourceKey } }
  IN  IF versions = {} THEN 0
      ELSE CHOOSE v \in versions : \A w \in versions : w <= v

\* a Redis holding the one list, empty
InitStore ==
  /\ eventChannel = <<>>
  /\ previousStates = [k \in Keys |-> NoObj]
  /\ store = [k \in {QueueName} |-> <<>>]
  /\ lastResult = [outcome |-> "none", event |-> NoObj, handlers |-> 0,
                    evicted |-> FALSE]
  /\ sent = 0
  /\ response = NoResponse
  /\ yamlDoc = NoDoc
  /\ yamlOut = NoDoc
  /\ watchers = [s \in Sources |-> NoObj]
  /\ clock = 0
  /\ trimPending = FALSE
  /\ sourcePc = [s \in Sources |-> NotStarted]
  /\ supervisor = Booted

\* PushResourceChange up to and including its LPUSH: the version read and
\* the LPUSH can each fail, and the function then returns the error
PushResourceChangeLPush(kind, namespace, name) ==
  /\ ~trimPending
  /\ sent < MaxEvents
  /\ sent' = sent + 1
  /\ \E versionOk \in BOOLEAN, pushOk \in BOOLEAN :
       LET resourceKey == Sprintf3(kind, namespace, name)
           change == [Version |-> GetCurrentVersion(store[QueueName], resourceKey) + 1,
                      ResourceKind |-> kind, Namespace |-> namespace,
                      ResourceName |-> name]
       IN  IF versionOk /\ pushOk
           THEN /\ store' = [store EXCEPT ![QueueName] = LPush(@, change)]
                /\ trimPending' = TRUE
                /\ lastResult' = [outcome |-> "lpush", event |-> change, handlers |-> 0,
                                   evicted |-> FALSE]
           ELSE /\ UNCHANGED <<store, trimPending>>
                /\ lastResult' = [outcome |-> "push_failed", event |-> change,
                                   handlers |-> 0, evicted |-> FALSE]
  /\ UNCHANGED <<eventChannel, previousStates>>
  /\ UNCHANGED readVars
  /\ UNCHANGED watchVars

\* the LTRIM of PushResourceChange: a second command, which can fail on its
\* own; the function then returns the error and the list stays as LPUSH left it
PushResourceChangeLTrim ==
  /\ trimPending
  /\ trimPending' = FALSE
  /\ \E trimOk \in BOOLEAN :
       IF trimOk
       THEN /\ store' = [store EXCEPT ![QueueName] = LTrim(@, 0, MaxVersions - 1)]
            /\ lastResult' = [lastResult EXCEPT !.outcome = "stored",
                                !.evicted = Len(store[QueueName]) > MaxVersions]
       ELSE /\ UNCHANGED store
            /\ lastResult' = [lastResult EXCEPT !.outcome = "trim_failed"]
  /\ UNCHANGED <<eventChannel, previousStates, sent>>
  /\ UNCHANGED readVars
  /\ UNCHANGED watchVars

\* GetResourceChanges from another goroutine: LRANGE 0 -1 of the list
GetResourceChanges ==
  /\ response' = [request |-> "LRANGE", status |-> StatusOK, body |-> store[QueueName]]
  /\ UNCHANGED <<eventChannel, previousStates, store, lastResult, sent, yamlDoc, yamlOut>>
  /\ UNCHANGED watchVars
  /\ UNCHANGED supervisor
  /\ UNCHANGED trimPending

NextStore ==
  \/ \E name \in Names : PushResourceChangeLPush("Gateway", "prod", name)
  \/ PushResourceChangeLTrim
  \/ GetResourceChanges

SpecStore == InitStore /\ [][NextStore]_vars

\* --------------------------- the pipeline while every store scan fails
\* one iteration of the worker loop in which GetAllObjects returns an error
StartScanFails ==
  /\ eventChannel # <<>>
  /\ eventChannel' = Tail(eventChannel)
  /\ \E pushOk \in BOOLEAN :
        processEvent(Head(eventChannel), FALSE, pushOk, TRUE)
  /\ UNCHANGED sent
  /\ UNCHANGED readVars
  /\ UNCHANGED trimPending
  /\ UNCHANGED watchVars

NextScanFails ==
  \/ \E event \in PersistedEvents : SendEvent(event)
  \/ StartScanFails

SpecScanFails == InitPersisted /\ [][NextScanFails]_vars

\* ------------------------------------- the pipeline with a failing handler
\* the process has not been ended by a panic
ProcessAlive == lastResult.outcome # "handler_panic"

\* a watch source sends while the process runs
SendWhileAlive(event) ==
  /\ ProcessAlive
  /\ SendEvent(event)

\* one iteration of the worker loop when RegisterHandler was given a handler
\* that can panic
StartWithHandlers ==
  /\ ProcessAlive
  /\ eventChannel # <<>>
  /\ eventChannel' = Tail(eventChannel)
  /\ \E scanOk \in BOOLEAN, pushOk \in BOOLEAN, handlerOk \in BOOLEAN :
        processEvent(Head(eventChannel), scanOk, pushOk, handlerOk)
  /\ UNCHANGED sent
  /\ UNCHANGED readVars
  /\ UNCHANGED trimPending
  /\ UNCHANGED watchVars

NextHandlers ==
  \/ \E event \in ApiEvents : SendWhileAlive(event)
  \/ StartWithHandlers

SpecHandlers == Init /\ [][NextHandlers]_vars

\* ------------------------------- watch sources as concurrent goroutines
OrderChanCap == 2     \* buffer size of eventChannel in the ordering runs

\* the objects the watch source of namespace s observes
Observed(s) ==
  [kind : Kinds, name : IF s = "prod" THEN Names ELSE {"r"}, namespace : {s},
   generation : 1..MaxGen, creationTimestamp : {"t0"},
   managedFields : {<<StatusEntry, SpecEntry>>}]

\* the ResourceEvent literal of the watch loop, Timestamp: time.Now() included
ResourceEventAt(type, kind, obj, now) ==
  [Type |-> type, ResourceKind |-> kind, Namespace |-> obj.namespace,
   Name |-> obj.name, Object |-> obj, Timestamp |-> now,
   ManagedFields |-> obj.managedFields]

\* the channel send with the newest element taken first
ChanSend_Lifo(ch, event) == <<event>> \o ch

\* `ep.eventChannel <- event`: the element joins the buffer behind the others
ChanSend(ch, event) == Append(ch, event)

\* a send that does not wait for room in the buffer
WatchSend_NoBlock(s) ==
  /\ watchers[s] # NoObj
  /\ eventChannel' = ChanSend(eventChannel, watchers[s])
  /\ watchers' = [watchers EXCEPT ![s] = NoObj]
  /\ sent' = sent + 1
  /\ UNCHANGED <<previousStates, store, lastResult, clock>>
  /\ UNCHANGED readVars
  /\ UNCHANGED sourcePc
  /\ UNCHANGED trimPending

\* the event type the API server emits with an object: a created resource
\* has generation 1, later generations come with modifications
WatchType(obj) == IF obj.generation = 1 THEN EventTypeAdded ELSE EventTypeModified

\* the watch source of namespace s takes the next object the API server
\* emitted on its stream and builds the event, reading the clock
WatchReceive(s) ==
  /\ watchers[s] = NoObj
  /\ clock < MaxEvents
  /\ \E obj \in Observed(s) :
       watchers' = [watchers EXCEPT ![s] =
                      ResourceEventAt(WatchType(obj), obj.kind, obj, clock)]
  /\ clock' = clock + 1
  /\ UNCHANGED <<eventChannel, previousStates, store, lastResult, sent>>
  /\ UNCHANGED readVars
  /\ UNCHANGED sourcePc
  /\ UNCHANGED trimPending

\* pipeline.SendEvent(...) of the watch source: blocks while the buffer is full
WatchSend(s) ==
  /\ watchers[s] # NoObj
  /\ Len(eventChannel) < OrderChanCap
  /\ eventChannel' = ChanSend(eventChannel, watchers[s])
  /\ watchers' = [watchers EXCEPT ![s] = NoObj]
  /\ sent' = sent + 1
  /\ UNCHANGED <<previousStates, store, lastResult, clock>>
  /\ UNCHANGED readVars
  /\ UNCHANGED sourcePc
  /\ UNCHANGED trimPending

\* ------------------------------------ a watch source from List to the end
\* the resources that exist in namespace s when the source starts, each in
\* its first generation
Existing(s) == { o \in Observed(s) : o.generation = 1 }

\* what List can return for the namespace s: no item, one item, or (for
\* prod) both resources in either order
ListResults(s) ==
  {<<>>} \cup { <<o>> : o \in Existing(s) }
  \cup { <<pair[1], pair[2]>> :
           pair \in { p \in Existing(s) \X Existing(s) : p[1].name # p[2].name } }

\* a source that opens its watch while items of the list are still unsent
OpenWatch_BeforePrimeEnds(s) ==
  /\ sourcePc[s].phase = "prime"
  /\ watchers[s] = NoObj
  /\ \E ok \in BOOLEAN :
       sourcePc' = [sourcePc EXCEPT ![s].phase = IF ok THEN "watch" ELSE "done",
                                    ![s].watchErr = ~ok]
  /\ UNCHANGED <<eventChannel, previousStates, store, lastResult, sent, watchers, clock>>
  /\ UNCHANGED readVars
  /\ UNCHANGED trimPending

\* a source that tries again when opening the watch fails
OpenWatch_Retries(s) ==
  /\ sourcePc[s].phase = "prime"
  /\ sourcePc[s].next > Len(sourcePc[s].items)
  /\ watchers[s] = NoObj
  /\ \E ok \in BOOLEAN :
       sourcePc' = [sourcePc EXCEPT ![s].phase = IF ok THEN "watch" ELSE "prime",
                                    ![s].watchErr = ~ok]
  /\ UNCHANGED <<eventChannel, previousStates, store, lastResult, sent, watchers, clock>>
  /\ UNCHANGED readVars
  /\ UNCHANGED trimPending

\* the List call of watchNamespace: on an error it prints and goes on with
\* no items
ListResources(s) ==
  /\ sourcePc[s].phase = "list"
  /\ \E ok \in BOOLEAN, items \in ListResults(s) :
       sourcePc' = [sourcePc EXCEPT ![s].phase = "prime",
                                    ![s].items = IF ok THEN items ELSE <<>>,
                                    ![s].listErr = ~ok]
  /\ UNCHANGED <<eventChannel, previousStates, store, lastResult, sent, watchers, clock>>
  /\ UNCHANGED readVars
  /\ UNCHANGED trimPending

\* the loop over existingResources.Items: the next item becomes an ADDED
\* event, which the source then sends
PrimeBuild(s) ==
  /\ sourcePc[s].phase = "prime"
  /\ sourcePc[s].next <= Len(sourcePc[s].items)
  /\ watchers[s] = NoObj
  /\ clock < MaxEvents
  /\ LET obj == sourcePc[s].items[sourcePc[s].next]
     IN  watchers' = [watchers EXCEPT ![s] =
                        ResourceEventAt(EventTypeAdded, obj.kind, obj, clock)]
  /\ clock' = clock + 1
  /\ sourcePc' = [sourcePc EXCEPT ![s].next = @ + 1]
  /\ UNCHANGED <<eventChannel, previousStates, store, lastResult, sent>>
  /\ UNCHANGED readVars
  /\ UNCHANGED trimPending

\* the Watch call after the loop: on an error the source prints and returns
OpenWatch(s) ==
  /\ sourcePc[s].phase = "prime"
  /\ sourcePc[s].next > Len(sourcePc[s].items)
  /\ watchers[s] = NoObj
  /\ \E ok \in BOOLEAN :
       sourcePc' = [sourcePc EXCEPT ![s].phase = IF ok THEN "watch" ELSE "done",
                                    ![s].watchErr = ~ok]
  /\ UNCHANGED <<eventChannel, previousStates, store, lastResult, sent, watchers, clock>>
  /\ UNCHANGED readVars
  /\ UNCHANGED trimPending

\* one iteration of `for event := range events` up to the SendEvent call;
\* a watch opened without a resource version replays the existing resources
StreamReceive(s) ==
  /\ sourcePc[s].phase = "watch"
  /\ watchers[s] = NoObj
  /\ clock < MaxEvents
  /\ \E obj \in Existing(s) :
       watchers' = [watchers EXCEPT ![s] =
                      ResourceEventAt(WatchType(obj), obj.kind, obj, clock)]
  /\ clock' = clock + 1
  /\ UNCHANGED <<eventChannel, previousStates, store, lastResult, sent>>
  /\ UNCHANGED readVars
  /\ UNCHANGED sourcePc
  /\ UNCHANGED trimPending

\* the upstream stream closes: the range loop ends and the source returns
StreamClosed(s) ==
  /\ sourcePc[s].phase = "watch"
  /\ watchers[s] = NoObj
  /\ sourcePc' = [sourcePc EXCEPT ![s].phase = "done"]
  /\ UNCHANGED <<eventChannel, previousStates, store, lastResult, sent, watchers, clock>>
  /\ UNCHANGED readVars
  /\ UNCHANGED trimPending

\* the request a client repeats while the sources run
HealthRequests ==
  { req \in Requests : req.endpoint = "/health" /\ req.method = MethodGet /\ req.readOk }

NextWatch ==
  \/ \E s \in Sources : ListResources(s)
  \/ \E s \in Sources : PrimeBuild(s)
  \/ \E s \in Sources : WatchSend(s)
  \/ \E s \in Sources : OpenWatch(s)
  \/ \E s \in Sources : StreamReceive(s)
  \/ \E s \in Sources : StreamClosed(s)
  \/ Start
  \/ \E req \in HealthRequests : ServeHTTP(req)

SpecWatch == Init /\ [][NextWatch]_vars

\* ------------------------------------------------- main from its first line
\* everything main does not own
pipelineVars ==
  <<eventChannel, previousStates, store, lastResult, sent, response, yamlDoc, yamlOut,
    watchers, clock, trimPending, sourcePc>>

\* main at its first statement: nothing is connected, registered or started
NotBooted ==
  [pc |-> "client", storeOpen |-> FALSE, changeHandlers |-> 0,
   worker |-> FALSE, enabledResources |-> {}, watchersStarted |-> {},
   server |-> FALSE, running |-> TRUE]

\* panic(err) in main: the process ends, nothing was deferred yet
Panicked == [supervisor EXCEPT !.pc = "panicked", !.running = FALSE]

\* BuildConfigFromFlags and dynamic.NewForConfig: panic on an error
NewForConfig ==
  /\ supervisor.running
  /\ supervisor.pc = "client"
  /\ \E ok \in BOOLEAN :
       supervisor' = IF ok THEN [supervisor EXCEPT !.pc = "redis"] ELSE Panicked
  /\ UNCHANGED pipelineVars

\* NewRedisManager, panic on an error, then `defer redisManager.Close()`
NewRedisManager ==
  /\ supervisor.running
  /\ supervisor.pc = "redis"
  /\ \E ok \in BOOLEAN :
       supervisor' = IF ok THEN [supervisor EXCEPT !.pc = "config", !.storeOpen = TRUE]
                     ELSE Panicked
  /\ UNCHANGED pipelineVars

\* LoadConfigFromFile with the default configuration as fallback; the
\* configuration decides which resources are enabled
LoadConfigFromFile ==
  /\ supervisor.running
  /\ supervisor.pc = "config"
  /\ \E enabled \in SUBSET Sources :
       supervisor' = [supervisor EXCEPT !.pc = "pipeline", !.enabledResources = enabled]
  /\ UNCHANGED pipelineVars

\* NewEventPipeline(1000, redisManager): no handler yet
NewEventPipeline ==
  /\ supervisor.running
  /\ supervisor.pc = "pipeline"
  /\ supervisor' = [supervisor EXCEPT !.pc = "register", !.changeHandlers = 0]
  /\ UNCHANGED pipelineVars

\* pipeline.RegisterHandler(...): appends one handler; main calls it three
\* times in a row
RegisterHandler ==
  /\ supervisor.running
  /\ supervisor.pc = "register"
  /\ supervisor.changeHandlers < NumHandlers
  /\ supervisor' = [supervisor EXCEPT !.changeHandlers = @ + 1]
  /\ UNCHANGED pipelineVars

\* a main that starts the worker while handlers are still to be registered
GoPipelineStart_BeforeHandlers ==
  /\ supervisor.running
  /\ supervisor.pc = "register"
  /\ ~supervisor.worker
  /\ supervisor' = [supervisor EXCEPT !.worker = TRUE]
  /\ UNCHANGED pipelineVars

\* `go pipeline.Start()`, after the third RegisterHandler call
GoPipelineStart ==
  /\ supervisor.running
  /\ supervisor.pc = "register"
  /\ supervisor.changeHandlers = NumHandlers
  /\ supervisor' = [supervisor EXCEPT !.pc = "watchers", !.worker = TRUE]
  /\ UNCHANGED pipelineVars

\* os.Exit(1) when no resource is enabled: the process ends at once and
\* deferred calls do not run
OsExit ==
  /\ supervisor.running
  /\ supervisor.pc = "watchers"
  /\ supervisor.enabledResources = {}
  /\ supervisor' = [supervisor EXCEPT !.pc = "exited", !.running = FALSE]
  /\ UNCHANGED pipelineVars

\* `go WatchResource(...)` for the next enabled resource
GoWatchResource(s) ==
  /\ supervisor.running
  /\ supervisor.pc = "watchers"
  /\ s \in supervisor.enabledResources \ supervisor.watchersStarted
  /\ supervisor' = [supervisor EXCEPT !.watchersStarted = @ \cup {s}]
  /\ UNCHANGED pipelineVars

\* `go StartHTTPServer(...)` after the loop, then `select {}`
GoStartHTTPServer ==
  /\ supervisor.running
  /\ supervisor.pc = "watchers"
  /\ supervisor.enabledResources # {}
  /\ supervisor.watchersStarted = supervisor.enabledResources
  /\ supervisor' = [supervisor EXCEPT !.pc = "select", !.server = TRUE]
  /\ UNCHANGED pipelineVars

\* SIGINT or SIGTERM arrives: main installs no signal handler, so the Go
\* runtime ends the process; main never returns and its deferred Close does
\* not run
Signal ==
  /\ supervisor.running
  /\ supervisor' = [supervisor EXCEPT !.pc = "signalled", !.running = FALSE]
  /\ UNCHANGED pipelineVars

\* the goroutines main started, while the process lives
WorkerStep == supervisor.running /\ supervisor.worker /\ Start

SourceStep(s) ==
  /\ supervisor.running
  /\ s \in supervisor.watchersStarted
  /\ \/ ListResources(s)
     \/ PrimeBuild(s)
     \/ WatchSend(s)

ServerStep ==
  /\ supervisor.running
  /\ supervisor.server
  /\ \E req \in HealthRequests : ServeHTTP(req)

InitBoot ==
  /\ eventChannel = <<>>
  /\ previousStates = [k \in Keys |-> NoObj]
  /\ store = [k \in Keys |-> <<>>]
  /\ lastResult = [outcome |-> "none", event |-> NoObj, handlers |-> 0,
                    evicted |-> FALSE]
  /\ sent = 0
  /\ response = NoResponse
  /\ yamlDoc = NoDoc
  /\ yamlOut = NoDoc
  /\ watchers = [s \in Sources |-> NoObj]
  /\ clock = 0
  /\ trimPending = FALSE
  /\ sourcePc = [s \in Sources |-> NotStarted]
  /\ supervisor = NotBooted

NextBoot ==
  \/ NewForConfig
  \/ NewRedisManager
  \/ LoadConfigFromFile
  \/ NewEventPipeline
  \/ RegisterHandler
  \/ GoPipelineStart
  \/ OsExit
  \/ \E s \in Sources : GoWatchResource(s)
  \/ GoStartHTTPServer
  \/ Signal
  \/ WorkerStep
  \/ \E s \in Sources : SourceStep(s)
  \/ ServerStep

SpecBoot == InitBoot /\ [][NextBoot]_vars

NextOrder ==
  \/ \E s \in Sources : WatchReceive(s)
  \/ \E s \in Sources : WatchSend(s)
  \/ Start

SpecOrder == Init /\ [][NextOrder]_vars

\* every source has sent its initial list (here empty) and opened its watch
InitLive ==
  /\ eventChannel = <<>>
  /\ previousStates = [k \in Keys |-> NoObj]
  /\ store = [k \in Keys |-> <<>>]
  /\ lastResult = [outcome |-> "none", event |-> NoObj, handlers |-> 0,
                    evicted |-> FALSE]
  /\ sent = 0
  /\ response = NoResponse
  /\ yamlDoc = NoDoc
  /\ yamlOut = NoDoc
  /\ watchers = [s \in Sources |-> NoObj]
  /\ clock = 0
  /\ trimPending = FALSE
  /\ sourcePc = [s \in Sources |-> [NotStarted EXCEPT !.phase = "watch"]]
  /\ supervisor = Booted

NextLive ==
  \/ \E s \in Sources : StreamReceive(s)
  \/ \E s \in Sources : WatchSend(s)
  \/ Start

\* the same system with a worker goroutine that the scheduler keeps running:
\* an iteration of its loop that can be taken is eventually taken (every
\* handler and store call returns)
SpecLive == InitLive /\ [][NextLive]_vars /\ WF_vars(Start)

\* ------------------------------------------- the YAML conversion on its own
\* managedFields entries as stored: the API server lists them oldest first,
\* entries without a time before the others
TimedEntry(t) == [manager |-> "kubectl", time |-> t]
UntimedEntry == [manager |-> "controller"]

YamlManagedFields ==
  { <<>>, <<TimedEntry("t1")>>, <<TimedEntry("t1"), TimedEntry("t2")>>,
    <<UntimedEntry>>, <<UntimedEntry, TimedEntry("t2")>> }

YamlAnnotations ==
  UNION { [keys -> {"v"}] : keys \in SUBSET {LastAppliedAnnotation, "team"} }

\* metadata.generation values of the stored documents (NoGen: absent)
YamlGenerations == {NoGen, 0, 1, 2}

\* a document with the optional fields chosen: generation, creationTimestamp,
\* managedFields, annotations, status, and a top-level key that is none of
\* apiVersion, kind, metadata, spec, status
YamlDoc(gen, hasCreation, mf, ann, hasStatus, hasData) ==
  LET mdKeys == {"name", "namespace", "uid"}
                \cup (IF gen = NoGen THEN {} ELSE {"generation"})
                \cup (IF hasCreation THEN {"creationTimestamp"} ELSE {})
                \cup (IF mf.present THEN {"managedFields"} ELSE {})
                \cup (IF ann.present THEN {"annotations"} ELSE {})
      metadata == [k \in mdKeys |->
                     CASE k = "name" -> "r"
                       [] k = "namespace" -> "prod"
                       [] k = "uid" -> "u1"
                       [] k = "generation" -> gen
                       [] k = "creationTimestamp" -> "t0"
                       [] k = "managedFields" -> mf.value
                       [] OTHER -> ann.value]
      topKeys == {"apiVersion", "kind", "metadata", "spec"}
                 \cup (IF hasStatus THEN {"status"} ELSE {})
                 \cup (IF hasData THEN {"data"} ELSE {})
  IN  [k \in topKeys |->
         CASE k = "apiVersion" -> "v1"
           [] k = "kind" -> "Gateway"
           [] k = "metadata" -> metadata
           [] k = "spec" -> "spec-content"
           [] k = "status" -> "status-content"
           [] OTHER -> "data-content"]

Optional(values) ==
  {[present |-> FALSE, value |-> <<>>]} \cup {[present |-> TRUE, value |-> v] : v \in values}

YamlDocs ==
  { YamlDoc(gen, hasCreation, mf, ann, hasStatus, hasData) :
      gen \in YamlGenerations, hasCreation \in BOOLEAN,
      mf \in Optional(YamlManagedFields), ann \in Optional(YamlAnnotations),
      hasStatus \in BOOLEAN, hasData \in BOOLEAN }

\* a stored document is handed to the conversion
InitYaml ==
  /\ eventChannel = <<>>
  /\ previousStates = [k \in Keys |-> NoObj]
  /\ store = [k \in Keys |-> <<>>]
  /\ lastResult = [outcome |-> "none", event |-> NoObj, handlers |-> 0,
                    evicted |-> FALSE]
  /\ sent = 0
  /\ response = NoResponse
  /\ yamlDoc \in YamlDocs
  /\ yamlOut = NoDoc
  /\ watchers = [s \in Sources |-> NoObj]
  /\ clock = 0
  /\ trimPending = FALSE
  /\ sourcePc = [s \in Sources |-> NotStarted]
  /\ supervisor = Booted

\* the conversion handleGetGenerationYAML runs on the document it found
ConvertDocument ==
  /\ yamlOut = NoDoc
  /\ yamlOut' = ConvertToYAMLWithStoredMetadata(yamlDoc)
  /\ UNCHANGED <<eventChannel, previousStates, store, lastResult, sent, response, yamlDoc>>
  /\ UNCHANGED watchVars
  /\ UNCHANGED supervisor
  /\ UNCHANGED trimPending

NextYaml == ConvertDocument

SpecYaml == InitYaml /\ [][NextYaml]_vars


\* =================================================================== claims
\* The VersionLog of an identity: the list the pipeline keeps for it, under
\* the key processEvent / storeVersionedResourceChange build for its events.
VersionLog(id) == GetResourceObjects(store, Sprintf3(id.kind, id.namespace, id.name))

\* generation of a snapshot as a number (0 when the document carries none)
GenOf(obj) == IF obj.generation = NoGen THEN 0 ELSE obj.generation

\* the identity an event is about
IdentityOf(event) ==
  [kind |-> event.ResourceKind, name |-> event.Name, namespace |-> event.Namespace]

\* LastSeenCache entry of an identity
CacheOf(id) == previousStates[Sprintf3(id.kind, id.namespace, id.name)]

\* the top-level field keys an audit entry declares (none when it has no
\* field document or the document does not parse)
TopLevelKeys(mf) == IF mf.nilFields \/ ~mf.parses THEN {} ELSE mf.keys

\* some audit entry of the event names the metadata or the spec sub-tree
TouchesMetadataOrSpec(event) ==
  \E i \in 1..Len(event.ManagedFields) :
    {"f:metadata", "f:spec"} \cap TopLevelKeys(event.ManagedFields[i]) # {}

\* this step is the worker taking `event` from the channel and processing it
WorkerTook(event) ==
  /\ eventChannel # <<>>
  /\ event = Head(eventChannel)
  /\ eventChannel' = Tail(eventChannel)
  /\ sent' = sent
  /\ lastResult'.outcome # "restart"

\* C1: the VersionLog of every identity holds at most one snapshot for each
\* generation value.
C1_UniqueGeneration ==
  \A id \in Identities :
    \A i, j \in 1..Len(VersionLog(id)) :
      i # j => GenOf(VersionLog(id)[i]) # GenOf(VersionLog(id)[j])

C3_DedupAcrossRestart ==
  [][ \A event \in Events :
        ( /\ WorkerTook(event)
          /\ lastResult.outcome = "restart"
          /\ \A k \in Keys : previousStates[k] = NoObj
          /\ \E i \in 1..Len(VersionLog(IdentityOf(event))) :
                GenOf(VersionLog(IdentityOf(event))[i]) = GenOf(event.Object) )
        => store' = store ]_vars

\* C4: an event that is not ADDED and none of whose audit entries has a
\* top-level key for metadata or spec never changes any VersionLog.
C4_StatusNoiseRejected ==
  [][ \A event \in Events :
        ( /\ WorkerTook(event)
          /\ event.Type # EventTypeAdded
          /\ ~TouchesMetadataOrSpec(event) )
        => store' = store ]_vars

\* C4 witness: a status-only MODIFIED event was taken while its identity has
\* history and a cache entry of another generation
C4_Witness ==
  /\ lastResult.outcome = "filtered"
  /\ lastResult.event.Type = EventTypeModified
  /\ ~TouchesMetadataOrSpec(lastResult.event)
  /\ VersionLog(IdentityOf(lastResult.event)) # <<>>
  /\ CacheOf(IdentityOf(lastResult.event)) # NoObj
  /\ GenOf(CacheOf(IdentityOf(lastResult.event))) # GenOf(lastResult.event.Object)


\* C5: a relevant event (ADDED, or some audit entry names metadata or spec)
\* whose generation is neither the cached generation of its identity nor
\* the generation of a stored snapshot of its identity is committed: when
\* the store accepts the write its snapshot is the head of the VersionLog.
C5_RelevantNewGenerationCommitted ==
  [][ \A event \in Events :
        LET id == IdentityOf(event) IN
        ( /\ WorkerTook(event)
          /\ event.Type = EventTypeAdded \/ TouchesMetadataOrSpec(event)
          /\ CacheOf(id) = NoObj \/ GenOf(CacheOf(id)) # GenOf(event.Object)
          /\ \A i \in 1..Len(VersionLog(id)) :
                GenOf(VersionLog(id)[i]) # GenOf(event.Object)
          /\ lastResult'.outcome # "push_failed" )
        => /\ VersionLog(id)' # <<>>
           /\ Head(VersionLog(id)') = event.Object
           /\ Tail(VersionLog(id)') = SubSeq(VersionLog(id), 1, Len(VersionLog(id)') - 1) ]_vars

\* C5 witness: a MODIFIED event touching spec was committed on top of an
\* older generation (history length 2, newest first)
C5_Witness ==
  /\ lastResult.outcome = "stored"
  /\ lastResult.event.Type = EventTypeModified
  /\ Len(VersionLog(IdentityOf(lastResult.event))) = 2
  /\ Head(VersionLog(IdentityOf(lastResult.event))) = lastResult.event.Object

\* C6: when the cache holds a snapshot of the event's identity with the
\* event's generation, the event is dropped and no VersionLog changes.
C6_ReplayDropped ==
  [][ \A event \in Events :
        LET id == IdentityOf(event) IN
        ( /\ WorkerTook(event)
          /\ CacheOf(id) # NoObj
          /\ GenOf(CacheOf(id)) = GenOf(event.Object) )
        => /\ store' = store
           /\ lastResult'.outcome \in {"filtered", "skip_cache"} ]_vars

\* C6 witness: a relevant replay of the cached generation was dropped while
\* the identity has history
C6_Witness ==
  /\ lastResult.outcome = "skip_cache"
  /\ TouchesMetadataOrSpec(lastResult.event)
  /\ Len(VersionLog(IdentityOf(lastResult.event))) = MaxVersions

\* the first n elements of a list
Take(list, n) == SubSeq(list, 1, Min(n, Len(list)))

HistoryOf(id) ==
  handleGetResourceHistory(store, MethodGet, id.kind, id.name, id.namespace, TRUE)

\* C8: the key the pipeline commits under is kind/name/namespace, the key
\* the Read API builds, so every committed snapshot still in the store is
\* returned by GET /api/history asked with its kind, name and namespace.
C8_CommitKeyIsApiKey ==
  \A k \in Keys : \A i \in 1..Len(store[k]) :
    LET s == store[k][i]
        resp == HistoryOf([kind |-> s.kind, name |-> s.name, namespace |-> s.namespace])
    IN  /\ k = Sprintf3(s.kind, s.name, s.namespace)
        /\ resp.status = StatusOK
        /\ \E j \in 1..Len(resp.body) : resp.body[j].generation = GenOf(s)

\* C9: for an identity with a non-empty VersionLog, GET /api/history returns
\* one entry per stored snapshot in stored order: same length, and the i-th
\* generation is the generation of the i-th snapshot.
C9_HistoryMatchesLog ==
  \A id \in Identities :
    VersionLog(id) # <<>> =>
      /\ HistoryOf(id).status = StatusOK
      /\ Len(HistoryOf(id).body) = Len(VersionLog(id))
      /\ \A i \in 1..Len(VersionLog(id)) :
            HistoryOf(id).body[i].generation = GenOf(VersionLog(id)[i])

\* C10: the tuples GET /api/resources returns are exactly the identities
\* whose VersionLog is non-empty.
C10_ResourcesAreTrackedIdentities ==
  handleListAllResources(store, MethodGet, TRUE).body =
    { [Kind |-> id.kind, Name |-> id.name, Namespace |-> id.namespace] :
        id \in { x \in Identities : VersionLog(x) # <<>> } }

\* this step is the HTTP server answering `req` (the pipeline's steps all
\* change the channel)
Served(req) ==
  /\ eventChannel' = eventChannel
  /\ response'.request = req

\* the identity a request names with its kind, name and namespace parameters
RequestIdentity(req) == [kind |-> req.kind, name |-> req.name, namespace |-> req.namespace]

\* the VersionLog of the identity holds a snapshot of generation g
HasGeneration(id, g) ==
  \E i \in 1..Len(VersionLog(id)) : GenOf(VersionLog(id)[i]) = g

\* C11: while the store answers, GET /api/history for an identity whose
\* VersionLog is empty, and GET /api/generation for an identity and
\* generation of which the VersionLog holds no snapshot, are answered 404
\* with the body {success: false, error: ...}.
C11_AbsentIsNotFound ==
  [][ \A req \in Requests :
        ( /\ Served(req)
          /\ req.method = MethodGet
          /\ req.readOk
          /\ req.name # ""
          /\ \/ /\ req.endpoint = "/api/history"
                /\ VersionLog(RequestIdentity(req)) = <<>>
             \/ /\ req.endpoint = "/api/generation"
                /\ ~ParseInt(req.generation).err
                /\ ~HasGeneration(RequestIdentity(req), ParseInt(req.generation).value) )
        => /\ response'.status = StatusNotFound
           /\ response'.body.success = FALSE ]_vars

\* C12: on each of the four endpoints a request whose method is not GET is
\* answered 405.
C12_NonGetIsRejected ==
  [][ \A req \in Requests :
        (Served(req) /\ req.method # MethodGet)
        => response'.status = StatusMethodNotAllowed ]_vars

\* the generation parameter a client writes for generation g
GenerationString(g) == CHOOSE str \in DOMAIN Numerals : Numerals[str] = g

\* GET /api/generation as a client asks it for a snapshot's identity and
\* generation
GenerationOf(s) ==
  handleGetGenerationYAML(store, MethodGet, s.kind, s.name, s.namespace,
                          GenerationString(GenOf(s)), TRUE)

\* every field of the document `doc` that cleaning is to keep is in `out`
\* with its value: apiVersion, kind, spec, status, and each metadata field
\* but managedFields and the last-applied-configuration annotation
KeepsContent(doc, out) ==
  /\ \A k \in DOMAIN doc \cap {"apiVersion", "kind", "spec", "status"} :
        Has(out, k) /\ out[k] = doc[k]
  /\ Has(doc, "metadata") =>
        /\ Has(out, "metadata")
        /\ \A f \in DOMAIN doc.metadata \ {"managedFields", "annotations"} :
              Has(out.metadata, f) /\ out.metadata[f] = doc.metadata[f]
        /\ Has(doc.metadata, "annotations") =>
              \A a \in DOMAIN doc.metadata.annotations \ {LastAppliedAnnotation} :
                 /\ Has(out.metadata, "annotations")
                 /\ Has(out.metadata.annotations, a)
                 /\ out.metadata.annotations[a] = doc.metadata.annotations[a]

\* C13: for every committed snapshot s still stored, GET /api/generation
\* asked with s's kind, name, namespace and generation returns a document
\* with s's apiVersion, kind, spec, status and every metadata field other
\* than managedFields and the last-applied-configuration annotation.
C13_RenderedDocumentMatchesSnapshot ==
  \A k \in Keys : \A i \in 1..Len(store[k]) :
    /\ GenerationOf(store[k][i]).status = StatusOK
    /\ KeepsContent(AsMap(store[k][i]), GenerationOf(store[k][i]).body.yaml)

\* the annotations of a document's metadata without the last-applied one
OtherAnnotations(doc) ==
  Restrict(doc.metadata.annotations,
           DOMAIN doc.metadata.annotations \ {LastAppliedAnnotation})

\* the metadata fields cleaning is to remove: managedFields, and the
\* annotations map when nothing but the last-applied annotation is in it
RemovedMetadataFields(doc) ==
  {"managedFields"} \cup
  (IF Has(doc.metadata, "annotations") /\ DOMAIN OtherAnnotations(doc) = {}
   THEN {"annotations"} ELSE {})

\* C14: the cleaned document has every top-level key of the input with its
\* value, the metadata having lost only managedFields, the last-applied
\* annotation and the annotations map that removal left empty.
C14_CleaningRemovesExactlyThree ==
  yamlOut # NoDoc =>
    LET doc == yamlDoc
        out == yamlOut.yaml
    IN  /\ DOMAIN out = DOMAIN doc
        /\ \A k \in DOMAIN doc \ {"metadata"} : out[k] = doc[k]
        /\ DOMAIN out.metadata = DOMAIN doc.metadata \ RemovedMetadataFields(doc)
        /\ \A f \in DOMAIN out.metadata :
              IF f = "annotations"
              THEN out.metadata[f] = OtherAnnotations(doc)
              ELSE out.metadata[f] = doc.metadata[f]

\* the time of the newest management-audit entry of a document that carries
\* a time; "absent" when there is none
NewestAuditTime(doc) ==
  IF ~Has(doc.metadata, "managedFields") THEN "absent"
  ELSE LET mf == doc.metadata.managedFields
           timed == { i \in 1..Len(mf) : Has(mf[i], "time") }
       IN  IF timed = {} THEN "absent"
           ELSE mf[CHOOSE i \in timed : \A j \in timed : j <= i].time

\* the creationTimestamp of a document; "absent" when there is none
CreationTime(doc) ==
  IF Has(doc.metadata, "creationTimestamp") THEN doc.metadata.creationTimestamp
  ELSE "absent"

\* metadata.generation as a number, 0 when absent
DocGeneration(doc) ==
  IF Has(doc.metadata, "generation") THEN doc.metadata.generation ELSE 0

OrUnknown(value) == IF value = "absent" THEN "unknown" ELSE value

C16_HistoryTimestampIsVersionTimestamp ==
  \A k \in Keys : \A i \in 1..Len(store[k]) :
    LET s == store[k][i]
        history == handleGetResourceHistory(store, MethodGet, k[1], k[2], k[3], TRUE)
        rendered == handleGetGenerationYAML(store, MethodGet, k[1], k[2], k[3],
                                            GenerationString(GenOf(s)), TRUE)
    IN  /\ history.body[i].timestamp = rendered.body.timestamp
        /\ GenOf(s) = 1 => history.body[i].timestamp = s.creationTimestamp

\* C17: processing a DELETED event never adds a snapshot to any VersionLog.
C17_DeletedNotRecorded ==
  [][ \A event \in Events :
        (WorkerTook(event) /\ event.Type = EventTypeDeleted)
        => store' = store ]_vars

\* this step commits `event` under the key k
CommittedUnder(event, k) ==
  /\ WorkerTook(event)
  /\ lastResult'.outcome = "stored"
  /\ k = Sprintf3(event.ResourceKind, event.Namespace, event.Name)

C19_FailedWriteLeavesCache ==
  [][ \A event \in Events :
        (WorkerTook(event) /\ lastResult'.outcome = "push_failed")
        => previousStates' = previousStates ]_vars

\* C20: when the previous event's commit of (identity, g) failed on the
\* store write, a relevant event for the same identity and generation g,
\* of which the store holds no snapshot, is not dropped: unless the write
\* fails again its snapshot becomes the head of the VersionLog.
C20_RetryAfterFailedWrite ==
  [][ \A event \in Events :
        LET id == IdentityOf(event) IN
        ( /\ WorkerTook(event)
          /\ lastResult.outcome = "push_failed"
          /\ IdentityOf(lastResult.event) = id
          /\ GenOf(lastResult.event.Object) = GenOf(event.Object)
          /\ event.Type = EventTypeAdded \/ TouchesMetadataOrSpec(event)
          /\ ~HasGeneration(id, GenOf(event.Object))
          /\ lastResult'.outcome # "push_failed" )
        => /\ VersionLog(id)' # <<>>
           /\ Head(VersionLog(id)') = event.Object ]_vars

\* C21: after a handler failed on an event the worker goes on: it can take
\* the next queued event, and the step of the failed event has left the
\* LastSeenCache entry of its identity set to the event's snapshot.
C21_HandlerFailureContained ==
  lastResult.outcome = "handler_panic" =>
    /\ eventChannel # <<>> => ENABLED StartWithHandlers
    /\ CacheOf(IdentityOf(lastResult.event)) = lastResult.event.Object

\* the watch source (kind, namespace) an event came from
SameSource(e1, e2) ==
  /\ e1.ResourceKind = e2.ResourceKind
  /\ e1.Namespace = e2.Namespace

\* the events built and not yet taken by the worker, other than the channel head
Waiting ==
  { eventChannel[j] : j \in 2..Len(eventChannel) }
  \cup { watchers[s] : s \in { x \in Sources : watchers[x] # NoObj } }

\* C22: the channel never holds more than its capacity; a step changes it
\* only by putting the sender's pending event behind the others while there
\* is room, or by handing its head to the worker; a source whose event is
\* pending keeps it until that event is in the channel (it blocks while the
\* channel is full), so the queue drops, overwrites and duplicates nothing.
C22_QueueBoundedNoLoss ==
  [][ /\ Len(eventChannel') <= OrderChanCap
      /\ \/ eventChannel' = eventChannel
         \/ \E s \in Sources :
              /\ watchers[s] # NoObj
              /\ Len(eventChannel) < OrderChanCap
              /\ eventChannel' = Append(eventChannel, watchers[s])
              /\ watchers'[s] = NoObj
         \/ /\ eventChannel # <<>>
            /\ eventChannel' = Tail(eventChannel)
            /\ lastResult'.event = Head(eventChannel)
      /\ \A s \in Sources :
           (watchers[s] # NoObj /\ watchers'[s] # watchers[s]) =>
             /\ Len(eventChannel) < OrderChanCap
             /\ eventChannel' = Append(eventChannel, watchers[s]) ]_vars

\* a sender is blocked on the full channel
C22_Witness ==
  /\ Len(eventChannel) = OrderChanCap
  /\ \E s \in Sources : watchers[s] # NoObj

\* C23: when the worker takes an event, every event of the same watch source
\* that is still waiting (queued or pending in the source) was built later,
\* whatever the other sources did in between; and a commit puts the event's
\* snapshot at the head of its VersionLog, above the snapshots of the events
\* processed before it.
C23_EmissionOrderKept ==
  [][ (eventChannel # <<>> /\ eventChannel' = Tail(eventChannel)) =>
        LET event == Head(eventChannel)
            key == Sprintf3(event.ResourceKind, event.Namespace, event.Name)
        IN  /\ \A w \in Waiting : SameSource(w, event) => w.Timestamp > event.Timestamp
            /\ lastResult'.outcome = "stored" =>
                 store'[key] = Take(<<event.Object>> \o store[key], MaxVersions) ]_vars

\* two events of one identity wait in the channel while the other source
\* holds an event it built between them
C23_Witness ==
  /\ Len(eventChannel) = 2
  /\ IdentityOf(eventChannel[1]) = IdentityOf(eventChannel[2])
  /\ watchers["r"] # NoObj
  /\ eventChannel[1].Timestamp < watchers["r"].Timestamp
  /\ watchers["r"].Timestamp < eventChannel[2].Timestamp

\* C24: a step that serves a Read API request, whatever the endpoint, the
\* method and the outcome, leaves every VersionLog (and with it the set of
\* tracked keys) and the LastSeenCache as they are; a step that changes one
\* of them is a step of the Pipeline worker.
C24_ReadsWriteNothing ==
  [][ /\ (eventChannel' = eventChannel /\ response'.request \in Requests) =>
           (store' = store /\ previousStates' = previousStates)
      /\ (store' # store \/ previousStates' # previousStates) =>
           \E event \in ReadEvents : WorkerTook(event) ]_vars

\* a snapshot was served from a store and a cache that hold data
C24_Witness ==
  /\ "status" \in DOMAIN response
  /\ response.status = StatusOK
  /\ response.request.endpoint = "/api/generation"
  /\ \E k \in Keys : store[k] # <<>>
  /\ \E k \in Keys : previousStates[k] # NoObj

\* the store key the worker commits an event under
KeyOf(event) == Sprintf3(event.ResourceKind, event.Namespace, event.Name)

C30_DedupScopedToIdentity ==
  [][ \A event \in PersistedEvents :
        (WorkerTook(event) /\ lastResult'.outcome \in {"skip_cache", "skip_store"}) =>
          LET id == IdentityOf(event)
              g == GenOf(event.Object)
          IN  \/ CacheOf(id) # NoObj /\ GenOf(CacheOf(id)) = g
              \/ HasGeneration(id, g) ]_vars

\* prod/prod was committed in generation 1 while prod/r held a snapshot of
\* generation 1 in its log and in the cache
C30_Witness ==
  /\ lastResult.outcome = "stored"
  /\ lastResult.event.Name = "prod"
  /\ GenOf(lastResult.event.Object) = 1
  /\ HasGeneration([kind |-> "Gateway", name |-> "r", namespace |-> "prod"], 1)
  /\ CacheOf([kind |-> "Gateway", name |-> "r", namespace |-> "prod"]) # NoObj
  /\ GenOf(CacheOf([kind |-> "Gateway", name |-> "r", namespace |-> "prod"])) = 1

\* C29: the worker lets a MODIFIED or DELETED event pass the relevance filter
\* exactly when one of its audit entries has a field document that parses
\* and has f:metadata or f:spec among its top-level keys; keys that occur
\* only in nested values, a missing document and an unparsable document do
\* not make an entry relevant.
C29_TopLevelKeysDecide ==
  lastResult.outcome # "none" =>
    (lastResult.outcome # "filtered" <=>
       \E i \in 1..Len(lastResult.event.ManagedFields) :
         LET mf == lastResult.event.ManagedFields[i]
         IN  /\ ~mf.nilFields
             /\ mf.parses
             /\ ("f:metadata" \in mf.keys \/ "f:spec" \in mf.keys))

\* an event whose entries name the spec only in nested values was dropped
C29_Witness ==
  /\ lastResult.outcome = "filtered"
  /\ Len(lastResult.event.ManagedFields) = 2
  /\ \A i \in 1..2 :
       /\ ~lastResult.event.ManagedFields[i].nilFields
       /\ lastResult.event.ManagedFields[i].parses
       /\ "f:spec" \in lastResult.event.ManagedFields[i].nested

\* the event passes the relevance filter (Step A)
PassesFilter(event) == event.Type = EventTypeAdded \/ TouchesMetadataOrSpec(event)

C28_HandlersOnlyOnCommit ==
  lastResult.handlers > 0 => lastResult.outcome = "stored"

\* C28: the worker invokes every registered handler for an event that passes
\* the relevance filter, also when the generation check drops it afterwards,
\* and none for an event the relevance filter drops.
C28_HandlersAfterFilter ==
  lastResult.outcome \notin {"none", "restart"} =>
    /\ PassesFilter(lastResult.event) => lastResult.handlers = NumHandlers
    /\ ~PassesFilter(lastResult.event) =>
         (lastResult.handlers = 0 /\ lastResult.outcome = "filtered")

\* the handlers ran for a replay the generation check dropped
C28_Witness ==
  /\ lastResult.outcome = "skip_cache"
  /\ lastResult.handlers = NumHandlers
  /\ lastResult.event.Type = EventTypeModified

\* C26: the append is one step: no reader is handed a list of more than
\* MaxVersions entries, and once the append has returned, with or without an
\* error, the list holds at most MaxVersions entries.
C26_AppendAtomic ==
  /\ "body" \in DOMAIN response => Len(response.body) <= MaxVersions
  /\ ~trimPending => Len(store[QueueName]) <= MaxVersions

\* C32: while the store scan fails, an event that passes the relevance
\* filter and whose generation differs from the cached one is never dropped
\* as a duplicate: the worker calls the store's append for it, whatever the
\* store already holds, and a successful append puts its snapshot at the
\* head of the log.
C32_FailedScanStillCommits ==
  [][ \A event \in PersistedEvents :
        LET id == IdentityOf(event) IN
        ( /\ WorkerTook(event)
          /\ PassesFilter(event)
          /\ ~(CacheOf(id) # NoObj /\ GenOf(CacheOf(id)) = GenOf(event.Object)) )
        => /\ lastResult'.outcome \in {"stored", "push_failed"}
           /\ lastResult'.outcome = "stored" =>
                Head(store'[KeyOf(event)]) = event.Object ]_vars

\* with the scan failing, a generation the log already held was committed
\* a second time
C32_Witness ==
  /\ lastResult.outcome = "stored"
  /\ \E i \in 2..Len(store[KeyOf(lastResult.event)]) :
       GenOf(store[KeyOf(lastResult.event)][i]) = GenOf(lastResult.event.Object)

\* C33: an event whose snapshot carries no generation is handled as
\* generation 0: when it passes the relevance filter and neither the cache
\* entry nor the VersionLog of its identity holds a generation-0 snapshot,
\* the worker commits it; while one of them does, the event is dropped and
\* no VersionLog changes.
C33_MissingGenerationIsZero ==
  [][ \A event \in Events :
        LET id == IdentityOf(event) IN
        ( /\ WorkerTook(event)
          /\ event.Object.generation = NoGen
          /\ PassesFilter(event) )
        => IF (CacheOf(id) # NoObj /\ GenOf(CacheOf(id)) = 0) \/ HasGeneration(id, 0)
           THEN store' = store
           ELSE /\ lastResult'.outcome \in {"stored", "push_failed"}
                /\ lastResult'.outcome = "stored" =>
                     Head(store'[KeyOf(event)]) = event.Object ]_vars

\* the status the ordered rules give a request on /api/history or
\* /api/generation: 405, then 400, then 500, then 404, else 200
StatusByRule(req) ==
  LET id == RequestIdentity(req)
      onGeneration == req.endpoint = "/api/generation"
  IN  IF req.method # MethodGet THEN StatusMethodNotAllowed
      ELSE IF \/ req.kind = "" \/ req.name = "" \/ req.namespace = ""
              \/ onGeneration /\ (req.generation = "" \/ ParseInt(req.generation).err)
      THEN StatusBadRequest
      ELSE IF ~req.readOk THEN StatusInternalServerError
      ELSE IF \/ VersionLog(id) = <<>>
              \/ onGeneration /\ ~HasGeneration(id, ParseInt(req.generation).value)
      THEN StatusNotFound
      ELSE StatusOK

\* C37: every response on /api/history and /api/generation carries the
\* status of the first rule that applies to the request and to the
\* VersionLog of the identity it names.
C37_StatusByFirstRule ==
  [][ \A req \in Requests :
        (Served(req) /\ req.endpoint \in {"/api/history", "/api/generation"})
        => response'.status = StatusByRule(req) ]_vars

\* this step is the source s building an event
Built(s) ==
  /\ clock' # clock
  /\ watchers[s] = NoObj
  /\ watchers'[s] # NoObj

\* C34: while items of its initial list are unsent, the event a source
\* builds is the ADDED event of the next item in list order; a source builds
\* a stream event only when every item of the list has been sent to the
\* queue.
C34_PrimeThenStream ==
  [][ \A s \in Sources :
        Built(s) =>
          IF sourcePc[s].next <= Len(sourcePc[s].items)
          THEN /\ sourcePc[s].phase = "prime"
               /\ watchers'[s].Type = EventTypeAdded
               /\ watchers'[s].Object = sourcePc[s].items[sourcePc[s].next]
               /\ sourcePc'[s].next = sourcePc[s].next + 1
          ELSE /\ sourcePc[s].phase = "watch"
               /\ sourcePc'[s] = sourcePc[s] ]_vars

\* the source of prod has sent both items of its list and holds its first
\* stream event
C34_Witness ==
  /\ sourcePc["prod"].phase = "watch"
  /\ Len(sourcePc["prod"].items) = 2
  /\ watchers["prod"] # NoObj
  /\ watchers["prod"].Timestamp = 2

\* C35: a source whose Watch call failed has ended: it changes no more and
\* holds no event; the step that ends it touches nothing of the other
\* sources, of the queue, of the store or of the cache, after which the
\* worker can take a queued event, the Read API can serve, and every other
\* source can take its next step; a source whose List call failed can still
\* call Watch.
C35_WatchFailureEndsOneSource ==
  [][ \A s \in Sources :
        /\ sourcePc[s].watchErr =>
             /\ sourcePc[s].phase = "done"
             /\ watchers[s] = NoObj
             /\ sourcePc'[s] = sourcePc[s]
             /\ watchers'[s] = watchers[s]
             /\ eventChannel # <<>> => ENABLED Start
             /\ ENABLED (\E req \in HealthRequests : ServeHTTP(req))
             /\ \A t \in Sources \ {s} :
                  /\ sourcePc[t].phase = "list" => ENABLED ListResources(t)
                  /\ (sourcePc[t].phase = "prime" /\ watchers[t] = NoObj
                      /\ sourcePc[t].next > Len(sourcePc[t].items)) => ENABLED OpenWatch(t)
                  /\ (watchers[t] # NoObj /\ Len(eventChannel) < OrderChanCap)
                       => ENABLED WatchSend(t)
        /\ (sourcePc'[s].watchErr /\ ~sourcePc[s].watchErr) =>
             /\ \A t \in Sources \ {s} :
                  sourcePc'[t] = sourcePc[t] /\ watchers'[t] = watchers[t]
             /\ UNCHANGED <<eventChannel, store, previousStates, response>>
        /\ (sourcePc[s].listErr /\ sourcePc[s].phase = "prime") => ENABLED OpenWatch(s) ]_vars

\* the source of prod has ended on a failed Watch call; the source of r,
\* whose List call had failed, is watching and its event was committed
C35_Witness ==
  /\ sourcePc["prod"].watchErr
  /\ sourcePc["r"].listErr
  /\ sourcePc["r"].phase = "watch"
  /\ lastResult.outcome = "stored"
  /\ lastResult.event.Namespace = "r"

\* the event built at clock value t is in the queue
Accepted(t) == \E i \in 1..Len(eventChannel) : eventChannel[i].Timestamp = t

\* the last event the worker processed is the one built at clock value t
Processed(t) == "Timestamp" \in DOMAIN lastResult.event /\ lastResult.event.Timestamp = t

\* the source s holds an event and the queue has no room for it
Blocked(s) == watchers[s] # NoObj /\ Len(eventChannel) = OrderChanCap

\* C31: with a worker that keeps running, every event in the queue is
\* eventually the one the worker processes, and a source blocked on a full
\* queue eventually finds room; the worker processes the head of the queue
\* and removes it, and no event is in the queue or in a sender's hands
\* twice, so an event is processed once.
C31_AcceptedEventuallyProcessed ==
  /\ \A t \in 0..(MaxEvents - 1) : Accepted(t) ~> Processed(t)
  /\ \A s \in Sources : Blocked(s) ~> ~Blocked(s)
  /\ [][ /\ \A t \in 0..(MaxEvents - 1) :
             (~Processed(t) /\ Processed(t)') =>
               /\ eventChannel # <<>>
               /\ Head(eventChannel).Timestamp = t
               /\ eventChannel' = Tail(eventChannel)
               /\ ~Accepted(t)'
               /\ \A s \in Sources : watchers'[s] # NoObj => watchers'[s].Timestamp # t
         /\ \A t \in 0..(MaxEvents - 1) :
             (Processed(t) /\ ~Accepted(t)) => ~Accepted(t)' ]_vars

\* the queue is full, the source of prod holds the third event and the
\* worker has processed nothing yet
C31_Witness ==
  /\ Blocked("prod")
  /\ watchers["prod"].Timestamp = 2
  /\ Accepted(0)
  /\ Accepted(1)
  /\ lastResult.outcome = "none"

\* C36: the worker is started only when the three handlers are registered,
\* a watch source is started only when the worker has been started, the
\* handler list does not change once the worker has been started, and only
\* a started source sends and only a started worker processes.
C36_BootOrder ==
  [][ /\ (supervisor'.worker /\ ~supervisor.worker) =>
            supervisor.changeHandlers = NumHandlers
      /\ supervisor'.watchersStarted # supervisor.watchersStarted => supervisor.worker
      /\ supervisor.worker => supervisor'.changeHandlers = supervisor.changeHandlers
      /\ sourcePc' # sourcePc =>
            \A s \in Sources : sourcePc'[s] # sourcePc[s] => s \in supervisor.watchersStarted
      /\ lastResult' # lastResult =>
            supervisor.worker /\ supervisor.changeHandlers = NumHandlers ]_vars

\* main blocks in `select {}` with both sources started, and the worker has
\* stored an event
C36_Witness ==
  /\ supervisor.pc = "select"
  /\ supervisor.watchersStarted = Sources
  /\ supervisor.changeHandlers = NumHandlers
  /\ lastResult.outcome = "stored"

\* C38: when the process has ended on a shutdown signal, the store
\* connection has been closed.
C38_StoreClosedOnSignal ==
  supervisor.pc = "signalled" => ~supervisor.storeOpen

====
